---- MODULE Spec2Model ----
(***************************************************************************)
(* A model of hohhot_data.py: the page cache (fetch_html_content), the     *)
(* index and bulletin parsers (process_index_page, fill_month_trade_info,  *)
(* the extraction patterns, BaseInfo / HouseInfo / TradeInfo), the         *)
(* orchestrator (fetch_business_data) and the sort of __main__.            *)
(*                                                                         *)
(* Strings are sequences of code points, byte strings are sequences of     *)
(* byte values.  A number captured by the pattern `num` is a numeral:      *)
(* <<w>> for the form \d+ and <<w, t>> for the form \d+\.\d (one decimal), *)
(* and a Python float is counted in tenths.                                *)
(***************************************************************************)
EXTENDS Integers, Sequences, FiniteSets, TLC

VARIABLES
    files,            \* the local directory: file name -> bytes, or Absent
    fetch_log,        \* history: one entry per fetch_html_content call
    month_info_list,  \* the process-wide result list (line 66)
    x,                \* the x-axis labels built after the sort (line 182)
    pc,               \* where the run is
    page_idx,         \* index into page_ids of the page being processed
    month_tags,       \* anchors found on the current index page (line 151)
    tag_idx,          \* position of the for loop of line 153 in month_tags
    site,             \* the remote site during the run: index page -> anchors
    content,          \* input of the parser specification: a content string
    trade_info        \* output of the parser specification

vars == <<files, fetch_log, month_info_list, x, pc, page_idx, month_tags,
          tag_idx, site, content, trade_info>>

-----------------------------------------------------------------------------
(* Bounds of the model.                                                    *)

\* index pages visited by the run (the program visits 8, line 169)
NumPages == 2
\* anchors on the index pages of the site, all pages together
MaxAnchors == 2
\* calls made in the page-cache specification
MaxCalls == 3

-----------------------------------------------------------------------------
(* Characters and strings.                                                 *)

Last(s) == s[Len(s)]

Digits == 48..57

\* "./"
DotSlash == <<46, 47>>
\* ".html"
DotHtml == <<46, 104, 116, 109, 108>>
\* the characters of title_pattern (line 148): 年 月 房地产 情况 我 | 市 场 运 行
TitleNian == <<24180>>
TitleYue == <<26376>>
TitleFangDiChan == <<25151, 22320, 20135>>
TitleQingKuang == <<24773, 20917>>
TitleClassA == {25105, 124, 24066}
TitleClassB == {24066, 124, 22330}
TitleClassC == {36816, 34892}

\* the characters of `trend` (line 69): [增下上][长降涨]
TrendFirst == {22686, 19979, 19978}
TrendSecond == {38271, 38477, 28072}
\* set('下降低负') of get_sign_value (line 11)
NegativeChars == {19979, 38477, 20302, 36127}

\* str.encode('utf-8') of one code point (below 65536)
Utf8Char(c) ==
    IF c < 128 THEN <<c>>
    ELSE IF c < 2048 THEN <<192 + (c \div 64), 128 + (c % 64)>>
    ELSE <<224 + (c \div 4096), 128 + ((c \div 64) % 64), 128 + (c % 64)>>

RECURSIVE Utf8Encode(_)
Utf8Encode(s) ==
    IF s = <<>> THEN <<>> ELSE Utf8Char(s[1]) \o Utf8Encode(Tail(s))

\* decoding of a well-formed UTF-8 byte string (what the HTML parser does
\* with bytes input)
RECURSIVE Utf8Decode(_)
Utf8Decode(b) ==
    IF b = <<>> THEN <<>>
    ELSE IF b[1] < 128 THEN <<b[1]>> \o Utf8Decode(Tail(b))
    ELSE IF b[1] < 224
        THEN <<(b[1] - 192) * 64 + (b[2] - 128)>> \o Utf8Decode(SubSeq(b, 3, Len(b)))
    ELSE <<(b[1] - 224) * 4096 + (b[2] - 128) * 64 + (b[3] - 128)>>
             \o Utf8Decode(SubSeq(b, 4, Len(b)))

StartsWith(s, p) == Len(s) >= Len(p) /\ SubSeq(s, 1, Len(p)) = p

\* str.removeprefix
RemovePrefix(s, p) == IF StartsWith(s, p) THEN SubSeq(s, Len(p) + 1, Len(s)) ELSE s

\* str.strip() for the blank character
RECURSIVE Strip(_)
Strip(s) ==
    IF s = <<>> THEN s
    ELSE IF s[1] = 32 THEN Strip(Tail(s))
    ELSE IF Last(s) = 32 THEN Strip(SubSeq(s, 1, Len(s) - 1))
    ELSE s

\* int() of a string of ASCII digits (the program keeps year and month as
\* the strings the pattern captured; the claims compare them as integers)
RECURSIVE IntOf(_)
IntOf(s) == IF s = <<>> THEN 0 ELSE IntOf(SubSeq(s, 1, Len(s) - 1)) * 10 + (Last(s) - 48)

\* Python's < on two strings: lexicographic by code point, a proper prefix
\* is smaller
RECURSIVE StrLess(_, _)
StrLess(a, b) ==
    IF b = <<>> THEN FALSE
    ELSE IF a = <<>> THEN TRUE
    ELSE IF a[1] # b[1] THEN a[1] < b[1]
    ELSE StrLess(Tail(a), Tail(b))

-----------------------------------------------------------------------------
(* The page cache.                                                         *)

\* a file that does not exist
Absent == <<-1>>

\* a response of the network to a GET: the body text, or a failure
NetFail == <<-1>>

\* the cache check without the size test
CacheHit_only_exists(fs, dump_file) == fs[dump_file] # Absent

\* os.path.exists(dump_file) and os.path.getsize(dump_file) > 0 (line 108)
CacheHit(fs, dump_file) == fs[dump_file] # Absent /\ Len(fs[dump_file]) > 0

\* the URL of line 113 is the fixed base joined with suffix; the value of a
\* str is tagged "str", of a bytes object "bytes"
StrValue(text) == [kind |-> "str", data |-> text]
BytesValue(b) == [kind |-> "bytes", data |-> b]
NoValue == [kind |-> "none", data |-> <<>>]

\* fetch_html_content(dump_file, suffix) when the network answers `response`
\* to a GET: the files afterwards, the log entry of the call (whether a GET
\* was issued, whether the call raised, the value returned)
fetch_html_content(fs, dump_file, suffix, response) ==
    IF CacheHit(fs, dump_file)
    THEN [files |-> fs,
          entry |-> [id |-> dump_file, suffix |-> suffix, get |-> FALSE,
                     failed |-> FALSE, ret |-> BytesValue(fs[dump_file])]]
    ELSE IF response = NetFail
    THEN [files |-> fs,
          entry |-> [id |-> dump_file, suffix |-> suffix, get |-> TRUE,
                     failed |-> TRUE, ret |-> NoValue]]
    ELSE [files |-> [fs EXCEPT ![dump_file] = Utf8Encode(response)],
          entry |-> [id |-> dump_file, suffix |-> suffix, get |-> TRUE,
                     failed |-> FALSE, ret |-> StrValue(response)]]

-----------------------------------------------------------------------------
(* The extraction patterns.  A content string is modelled by the sentences *)
(* it holds, by kind of sentence (the literal prefix and punctuation of    *)
(* each pattern) and in order of appearance; a sentence by the text at     *)
(* each of its variable positions:                                         *)
(*   area                 the figure before 万平方米                        *)
(*   tb_t, tb_n, tb_pct   after 同比: trend token, figure, whether % follows*)
(*   hb_t, hb_n           after 环比: trend token, figure                   *)
(*   unit, u_tb_t, u_tb_n, u_hb_t, u_hb_n   the same for the 成交套数 clause*)
(* A match object is the function from group name to captured text;       *)
(* search returns <<>> for None and <<m>> for a match m.                   *)

\* `num` (line 68): \d+\.\d+ or \d+
IsNum(n) == Len(n) \in {1, 2}
\* \d+
IsInt(n) == Len(n) = 1
\* `trend` (line 69)
IsTrend(t) == Len(t) = 2 /\ t[1] \in TrendFirst /\ t[2] \in TrendSecond

\* float() of a captured numeral, in tenths
Float(n) == IF Len(n) = 1 THEN n[1] * 10 ELSE n[1] * 10 + n[2]

\* pattern.search over the sentences of one kind: the first that matches
Search(sentences, ok, groups) ==
    LET I == {i \in 1..Len(sentences) : ok[i]}
    IN  IF I = {} THEN <<>>
        ELSE <<groups[CHOOSE i \in I : \A j \in I : i <= j]>>

\* the groups of a list pattern, had 同比 been captured as yoy and 环比 as mom
ListGroups_named_by_position(s) ==
    [area |-> s.area,
     area_yoy_trend |-> s.tb_t, area_yoy |-> s.tb_n,
     area_mom_trend |-> s.hb_t, area_mom |-> s.hb_n]

\* the named groups of commercial_list_pattern and residential_list_pattern
\* (lines 71-73, 76-78)
ListGroups(s) ==
    [area |-> s.area,
     area_mom_trend |-> s.tb_t, area_mom |-> s.tb_n,
     area_yoy_trend |-> s.hb_t, area_yoy |-> s.hb_n]

ListShape(s) == IsNum(s.area) /\ IsTrend(s.tb_t) /\ IsNum(s.tb_n)
                    /\ IsTrend(s.hb_t) /\ IsNum(s.hb_n)

\* commercial_list_pattern.search(content) (lines 71-73)
commercial_list_pattern(c) ==
    Search(c.commercial_list,
           [i \in 1..Len(c.commercial_list) |->
               ListShape(c.commercial_list[i]) /\ c.commercial_list[i].tb_pct],
           [i \in 1..Len(c.commercial_list) |-> ListGroups(c.commercial_list[i])])

\* residential_list_pattern.search(content) (lines 76-78): %? after 同比
residential_list_pattern(c) ==
    Search(c.residential_list,
           [i \in 1..Len(c.residential_list) |-> ListShape(c.residential_list[i])],
           [i \in 1..Len(c.residential_list) |-> ListGroups(c.residential_list[i])])

\* the groups of a transaction pattern, had each unit figure been captured
\* under the name of its own trend token
DealGroups_named_by_position(s) ==
    [area |-> s.area,
     area_yoy_trend |-> s.tb_t, area_yoy |-> s.tb_n,
     area_mom_trend |-> s.hb_t, area_mom |-> s.hb_n,
     unit |-> s.unit,
     unit_yoy_trend |-> s.u_tb_t, unit_yoy |-> s.u_tb_n,
     unit_mom_trend |-> s.u_hb_t, unit_mom |-> s.u_hb_n]

\* the named groups of build_deal_pattern (lines 82-87)
DealGroups(s) ==
    [area |-> s.area,
     area_yoy_trend |-> s.tb_t, area_yoy |-> s.tb_n,
     area_mom_trend |-> s.hb_t, area_mom |-> s.hb_n,
     unit |-> s.unit,
     unit_yoy_trend |-> s.u_tb_t, unit_mom |-> s.u_tb_n,
     unit_mom_trend |-> s.u_hb_t, unit_yoy |-> s.u_hb_n]

DealShape(s) == IsNum(s.area) /\ IsTrend(s.tb_t) /\ IsNum(s.tb_n)
                    /\ IsTrend(s.hb_t) /\ IsNum(s.hb_n)
                    /\ IsInt(s.unit) /\ IsTrend(s.u_tb_t) /\ IsNum(s.u_tb_n)
                    /\ IsTrend(s.u_hb_t) /\ IsNum(s.u_hb_n)

\* build_deal_pattern(prefix).search over the sentences with that prefix
build_deal_pattern(sentences) ==
    Search(sentences,
           [i \in 1..Len(sentences) |-> DealShape(sentences[i])],
           [i \in 1..Len(sentences) |-> DealGroups(sentences[i])])

\* lines 91, 94, 96, 97
new_commercial_deal_pattern(c) == build_deal_pattern(c.new_commercial)
new_residential_deal_pattern(c) == build_deal_pattern(c.new_residential)
old_commercial_deal_pattern(c) == build_deal_pattern(c.old_commercial)
old_residential_deal_pattern(c) == build_deal_pattern(c.old_residential)

-----------------------------------------------------------------------------
(* get_sign_value, BaseInfo, HouseInfo, TradeInfo.                         *)

\* f'{name}{suffix}' for the group names the program builds
Join(name, suffix) ==
    CASE name = "area" /\ suffix = "_yoy" -> "area_yoy"
      [] name = "area" /\ suffix = "_mom" -> "area_mom"
      [] name = "unit" /\ suffix = "_yoy" -> "unit_yoy"
      [] name = "unit" /\ suffix = "_mom" -> "unit_mom"
      [] name = "area_yoy" /\ suffix = "_trend" -> "area_yoy_trend"
      [] name = "area_mom" /\ suffix = "_trend" -> "area_mom_trend"
      [] name = "unit_yoy" /\ suffix = "_trend" -> "unit_yoy_trend"
      [] name = "unit_mom" /\ suffix = "_trend" -> "unit_mom_trend"

\* get_sign_value (lines 10-13)
get_sign_value(match, name) ==
    IF \E i \in 1..Len(match[Join(name, "_trend")]) :
           match[Join(name, "_trend")][i] \in NegativeChars
    THEN 0 - Float(match[name])
    ELSE Float(match[name])

\* BaseInfo(match_result, name) (lines 18-28): what search returned is a
\* re.Match or None; with None neither branch applies and ValueError is
\* raised.  obj is <<>> when nothing was constructed.
BaseInfo(found, name) ==
    IF found = <<>>
    THEN [raised |-> TRUE, obj |-> <<>>]
    ELSE [raised |-> FALSE,
          obj |-> <<[value |-> Float(found[1][name]),
                     yoy |-> get_sign_value(found[1], Join(name, "_yoy")),
                     mom |-> get_sign_value(found[1], Join(name, "_mom"))]>>]

\* HouseInfo(commercial_match, residential_match) (lines 33-42)
HouseInfo(commercial_match, residential_match) ==
    LET ca == BaseInfo(commercial_match, "area")
        cu == BaseInfo(commercial_match, "unit")
        ra == BaseInfo(residential_match, "area")
        ru == BaseInfo(residential_match, "unit")
    IN  IF ca.raised \/ cu.raised \/ ra.raised \/ ru.raised
        THEN [raised |-> TRUE, obj |-> <<>>]
        ELSE [raised |-> FALSE,
              obj |-> <<[commercial_area |-> ca.obj[1],
                         commercial_unit |-> cu.obj[1],
                         residential_area |-> ra.obj[1],
                         residential_unit |-> ru.obj[1]]>>]

\* TradeInfo(year, month, href) (lines 46-57); an attribute that is None
\* is <<>>, one that holds an object o is <<o>>
TradeInfo(year, month, href) ==
    [year |-> year, month |-> month,
     href |-> RemovePrefix(Strip(href), DotSlash),
     commercial_list_info |-> <<>>, residential_list_info |-> <<>>,
     new_house |-> <<>>, old_house |-> <<>>]

-----------------------------------------------------------------------------
(* The bulletin parser.                                                    *)

\* lines 131-143 with the residential matches searched with the
\* residential patterns
ParseContent_residential_patterns(ti, c) ==
    LET cl == BaseInfo(commercial_list_pattern(c), "area")
        rl == BaseInfo(residential_list_pattern(c), "area")
        new_house == HouseInfo(new_commercial_deal_pattern(c),
                               new_residential_deal_pattern(c))
        old_house == HouseInfo(old_commercial_deal_pattern(c),
                               old_residential_deal_pattern(c))
        t1 == [ti EXCEPT !.commercial_list_info = cl.obj]
        t2 == [t1 EXCEPT !.residential_list_info = rl.obj]
        t3 == [t2 EXCEPT !.new_house = new_house.obj]
        t4 == [t3 EXCEPT !.old_house = old_house.obj]
    IN  IF cl.raised THEN [raised |-> TRUE, info |-> ti]
        ELSE IF rl.raised THEN [raised |-> TRUE, info |-> t1]
        ELSE IF new_house.raised THEN [raised |-> TRUE, info |-> t2]
        ELSE IF old_house.raised THEN [raised |-> TRUE, info |-> t3]
        ELSE [raised |-> FALSE, info |-> t4]

\* lines 131-143 of fill_month_trade_info on the content string c: the
\* attributes are assigned in order until a constructor raises.  Lines 135
\* and 138 search the commercial patterns for the residential matches.
ParseContent(ti, c) ==
    LET cl == BaseInfo(commercial_list_pattern(c), "area")
        rl == BaseInfo(residential_list_pattern(c), "area")
        new_commercial_deal_info == new_commercial_deal_pattern(c)
        new_residential_deal_info == new_commercial_deal_pattern(c)
        old_commercial_deal_info == old_commercial_deal_pattern(c)
        old_residential_deal_info == old_commercial_deal_pattern(c)
        new_house == HouseInfo(new_commercial_deal_info, new_residential_deal_info)
        old_house == HouseInfo(old_commercial_deal_info, old_residential_deal_info)
        t1 == [ti EXCEPT !.commercial_list_info = cl.obj]
        t2 == [t1 EXCEPT !.residential_list_info = rl.obj]
        t3 == [t2 EXCEPT !.new_house = new_house.obj]
        t4 == [t3 EXCEPT !.old_house = old_house.obj]
    IN  IF cl.raised THEN [raised |-> TRUE, info |-> ti]
        ELSE IF rl.raised THEN [raised |-> TRUE, info |-> t1]
        ELSE IF new_house.raised THEN [raised |-> TRUE, info |-> t2]
        ELSE IF old_house.raised THEN [raised |-> TRUE, info |-> t3]
        ELSE [raised |-> FALSE, info |-> t4]

\* lines 126-143: para is what soup.find(name='div', id='para') returned,
\* <<>> for None (para.get_text then raises AttributeError) and <<c>> for a
\* container whose text is the content string c
ParseBulletin(ti, para) ==
    IF para = <<>> THEN [raised |-> TRUE, info |-> ti]
    ELSE ParseContent(ti, para[1])

-----------------------------------------------------------------------------
(* The parser on its own: a content string drawn from bounded sets is      *)
(* parsed once.                                                            *)

\* 增长, 下降, 上涨, 增降 and a token `trend` does not match (减少)
TrendUp == <<22686, 38271>>
TrendDown == <<19979, 38477>>
TrendRise == <<19978, 28072>>
TrendMixed == <<22686, 38477>>
TrendOther == <<20943, 23569>>

ParseTrends == {TrendUp, TrendDown, TrendRise}

\* the list sentences tried
ParseListSentences ==
    {[area |-> <<30, 5>>, tb_t |-> t1, tb_n |-> <<3, 2>>, tb_pct |-> p,
      hb_t |-> t2, hb_n |-> <<1, 1>>] :
        t1 \in ParseTrends \cup {TrendMixed}, t2 \in ParseTrends, p \in BOOLEAN}

\* the transaction sentences tried; the first is the sentence of the
\* end-to-end example (12.5, 增长 3.2, 下降 1.1; 150, 增长 2.0, 下降 0.5)
ParseDealSentences ==
    {[area |-> <<12, 5>>, tb_t |-> t1, tb_n |-> <<3, 2>>, tb_pct |-> TRUE,
      hb_t |-> t2, hb_n |-> <<1, 1>>,
      unit |-> <<150>>, u_tb_t |-> t3, u_tb_n |-> <<2, 0>>,
      u_hb_t |-> t4, u_hb_n |-> n4] :
        t1 \in {TrendUp, TrendDown}, t2 \in {TrendDown, TrendRise},
        t3 \in {TrendUp, TrendDown, TrendOther}, t4 \in {TrendUp, TrendDown},
        n4 \in {<<0, 5>>, <<2>>}}

ExampleDeal ==
    [area |-> <<12, 5>>, tb_t |-> TrendUp, tb_n |-> <<3, 2>>, tb_pct |-> TRUE,
     hb_t |-> TrendDown, hb_n |-> <<1, 1>>,
     unit |-> <<150>>, u_tb_t |-> TrendUp, u_tb_n |-> <<2, 0>>,
     u_hb_t |-> TrendDown, u_hb_n |-> <<0, 5>>]

\* a content string with every sentence, built around one list sentence
\* and one transaction sentence
FullContent(l, d) ==
    [commercial_list |-> <<l>>, residential_list |-> <<l>>,
     new_commercial |-> <<d>>, new_residential |-> <<d>>,
     old_commercial |-> <<d>>, old_residential |-> <<d>>]

NoContent ==
    [commercial_list |-> <<>>, residential_list |-> <<>>,
     new_commercial |-> <<>>, new_residential |-> <<>>,
     old_commercial |-> <<>>, old_residential |-> <<>>]

NoTrade == TradeInfo(<<>>, <<>>, <<>>)

InitParse ==
    /\ content \in {FullContent(l, d) :
                        l \in ParseListSentences, d \in ParseDealSentences}
    /\ trade_info = [raised |-> FALSE, done |-> FALSE, info |-> NoTrade]
    /\ files = <<>>
    /\ fetch_log = <<>>
    /\ month_info_list = <<>>
    /\ x = <<>>
    /\ pc = "parse"
    /\ page_idx = 0
    /\ month_tags = <<>>
    /\ tag_idx = 0
    /\ site = <<>>

\* lines 131-143 applied to content
Parse ==
    /\ pc = "parse"
    /\ ~trade_info.done
    /\ LET r == ParseContent(NoTrade, content)
       IN  trade_info' = [raised |-> r.raised, done |-> TRUE, info |-> r.info]
    /\ UNCHANGED <<files, fetch_log, month_info_list, x, pc, page_idx,
                   month_tags, tag_idx, site, content>>

NextParse == Parse

SpecParse == InitParse /\ [][NextParse]_vars

-----------------------------------------------------------------------------
(* The index parser: title_pattern (line 148).                             *)

At(t, i) == IF i >= 1 /\ i <= Len(t) THEN t[i] ELSE 0

HasAt(t, i, lit) == i + Len(lit) - 1 <= Len(t) /\ SubSeq(t, i, i + Len(lit) - 1) = lit

\* the position after the longest run of characters of cls from position i
RECURSIVE SkipClass(_, _, _)
SkipClass(t, i, cls) == IF At(t, i) \in cls THEN SkipClass(t, i + 1, cls) ELSE i

\* [我|市]*房地产[市|场]*[运行]*情况 from position i (each class is disjoint
\* from what follows it, so the longest run is the only way to match)
TitleTailAt(t, i) ==
    LET a == SkipClass(t, i, TitleClassA)
        b == SkipClass(t, a + Len(TitleFangDiChan), TitleClassB)
        c == SkipClass(t, b, TitleClassC)
    IN  HasAt(t, a, TitleFangDiChan) /\ HasAt(t, c, TitleQingKuang)

\* the number of digits \d{1,2} takes at position i so that 月 follows
MonthLenAt(t, i) ==
    IF At(t, i) \in Digits /\ At(t, i + 1) \in Digits /\ HasAt(t, i + 2, TitleYue)
    THEN 2
    ELSE IF At(t, i) \in Digits /\ HasAt(t, i + 1, TitleYue) THEN 1
    ELSE 0

\* title_pattern matched at position i of t: <<>> for no match, else the
\* groups <<[year, month]>> (group(1), group(2): strings)
TitleMatchAt(t, i) ==
    LET n == MonthLenAt(t, i + 5)
    IN  IF /\ \A k \in i..(i + 3) : At(t, k) \in Digits
           /\ HasAt(t, i + 4, TitleNian)
           /\ n > 0
           /\ TitleTailAt(t, i + 5 + n + 1)
        THEN <<[year |-> SubSeq(t, i, i + 3), month |-> SubSeq(t, i + 5, i + 4 + n)]>>
        ELSE <<>>

\* re.match(title_pattern, title) (line 156)
TitleMatch(t) == TitleMatchAt(t, 1)

\* the title filter of find_all (line 151): the pattern is searched
TitleSearch(t) == \E i \in 1..Len(t) : TitleMatchAt(t, i) # <<>>

-----------------------------------------------------------------------------
(* The remote site.  The markup of a page is abbreviated to a short text   *)
(* that identifies it; the tree the HTML parser builds from it is the      *)
(* page's document.                                                        *)

\* "2023", "2022"; "3", "11", "1", "10", "2", "12"
Y2023 == <<50, 48, 50, 51>>
Y2022 == <<50, 48, 50, 50>>
M3 == <<51>>
M11 == <<49, 49>>
M1 == <<49>>
M10 == <<49, 48>>
M2 == <<50>>
M12 == <<49, 50>>

\* "<y>年<m>月我市房地产市场运行情况"
MakeTitle(y, m) ==
    y \o TitleNian \o m \o TitleYue \o <<25105, 24066>> \o TitleFangDiChan
      \o <<24066, 22330>> \o <<36816, 34892>> \o TitleQingKuang

\* a title the pattern does not match ("通知")
OtherTitle == <<36890, 30693>>

\* a title the pattern matches, but not at its start ("关于2022年12月...")
PrefixedTitle == <<20851, 20110>> \o MakeTitle(Y2022, M12)

Href(letter) == DotSlash \o <<letter>>

\* the anchors an index page may hold
Anchors ==
    {[target |-> "_blank", title |-> MakeTitle(Y2023, M3), href |-> Href(97)],
     [target |-> "_blank", title |-> MakeTitle(Y2023, M3), href |-> <<32>> \o Href(98)],
     [target |-> "_blank", title |-> MakeTitle(Y2022, M11), href |-> Href(99)],
     [target |-> "_blank", title |-> MakeTitle(Y2023, M1), href |-> Href(100)],
     [target |-> "_blank", title |-> MakeTitle(Y2023, M10), href |-> Href(101)],
     [target |-> "_blank", title |-> MakeTitle(Y2023, M2), href |-> Href(102)],
     [target |-> "_blank", title |-> MakeTitle(Y2022, M12), href |-> Href(103)],
     [target |-> "_blank", title |-> OtherTitle, href |-> Href(104)],
     [target |-> "_self", title |-> MakeTitle(Y2022, M12), href |-> Href(104)],
     [target |-> "_blank", title |-> PrefixedTitle, href |-> Href(97)]}

\* the sentences of the bulletins of the site
Deal(a, u) ==
    [area |-> <<a, 5>>, tb_t |-> TrendUp, tb_n |-> <<3, 2>>, tb_pct |-> TRUE,
     hb_t |-> TrendDown, hb_n |-> <<1, 1>>,
     unit |-> <<u>>, u_tb_t |-> TrendRise, u_tb_n |-> <<2, 0>>,
     u_hb_t |-> TrendDown, u_hb_n |-> <<0, 5>>]

Listed(a, pct) ==
    [area |-> <<a, 5>>, tb_t |-> TrendUp, tb_n |-> <<3, 2>>, tb_pct |-> pct,
     hb_t |-> TrendDown, hb_n |-> <<1, 1>>]

\* a bulletin with all six sentences
GoodBulletin(k) ==
    [commercial_list |-> <<Listed(30 + k, TRUE)>>,
     residential_list |-> <<Listed(20 + k, FALSE)>>,
     new_commercial |-> <<Deal(12 + k, 150 + k)>>,
     new_residential |-> <<Deal(10 + k, 120 + k)>>,
     old_commercial |-> <<Deal(8 + k, 90 + k)>>,
     old_residential |-> <<Deal(6 + k, 70 + k)>>]

\* the remote paths that name a bulletin: "a" .. "g"
BulletinPaths == {<<l>> : l \in 97..103}

\* the container div#para of the page at a path: <<>> when the page has
\* none, else <<content string>>
\*   a, b, c, d  every sentence
\*   e           no resale-residential (其中：二手住宅成交面积) sentence
\*   f           no container
\*   g           the listed-commercial sentence lacks the % after 同比
RemotePara(path) ==
    CASE path = <<97>> -> <<GoodBulletin(0)>>
      [] path = <<98>> -> <<GoodBulletin(1)>>
      [] path = <<99>> -> <<GoodBulletin(2)>>
      [] path = <<100>> -> <<GoodBulletin(3)>>
      [] path = <<101>> -> <<[GoodBulletin(4) EXCEPT !.old_residential = <<>>]>>
      [] path = <<102>> -> <<>>
      [] path = <<103>> ->
             <<[GoodBulletin(5) EXCEPT !.commercial_list = <<Listed(35, FALSE)>>]>>
      [] OTHER -> <<>>

\* the markup served at a bulletin path and at an index page
BulletinText(path) == <<25253>> \o path
IndexText(p) == <<30446, 48 + p>>

\* 'index.html', 'index_1.html', ... (lines 168-169)
IndexName(i) ==
    IF i = 0 THEN <<105, 110, 100, 101, 120>> \o DotHtml
    ELSE <<105, 110, 100, 101, 120, 95, 48 + i>> \o DotHtml

page_ids == [k \in 1..NumPages |-> IndexName(k - 1)]

\* the text an HTML parser sees: bytes are decoded, a str is taken as is
MarkupOf(html_content) ==
    IF html_content.kind = "bytes" THEN Utf8Decode(html_content.data)
    ELSE html_content.data

\* soup.find_all('a', target='_blank', title=title_pattern) (lines 150-151)
find_all(html_content) ==
    LET text == MarkupOf(html_content)
        P == {p \in 1..NumPages : IndexText(p) = text}
    IN  IF P = {} THEN <<>>
        ELSE SelectSeq(site[CHOOSE p \in P : TRUE],
                       LAMBDA a : a.target = "_blank" /\ TitleSearch(a.title))

\* soup.find(name='div', id='para') (lines 126-127)
find_para(html_content) ==
    LET text == MarkupOf(html_content)
        P == {path \in BulletinPaths : BulletinText(path) = text}
    IN  IF P = {} THEN <<>> ELSE RemotePara(CHOOSE path \in P : TRUE)

\* the file names the run may touch
FileIds ==
    {page_ids[k] : k \in 1..NumPages} \cup {a.title \o DotHtml : a \in Anchors}

-----------------------------------------------------------------------------
(* The orchestrator and the sort of __main__.                              *)

\* one entry of the history of fetches: the call, and the index page the
\* run was processing when it made it
LogEntry(entry, page) ==
    [id |-> entry.id, suffix |-> entry.suffix, get |-> entry.get,
     failed |-> entry.failed, ret |-> entry.ret, page |-> page]

\* fill_month_trade_info(trade_info, dump_file) (lines 121-143) when the
\* network answers `response`: the files afterwards, the call to the page
\* cache, whether an exception left the function and whether it was the
\* fetch that raised it, and trade_info as the function left it
fill_month_trade_info(fs, ti, dump_file, response) ==
    LET r == fetch_html_content(fs, dump_file, ti.href, response)
        parsed == ParseBulletin(ti, find_para(r.entry.ret))
    IN  IF r.entry.failed
        THEN [files |-> r.files, entry |-> r.entry, raised |-> TRUE,
              fetch_failed |-> TRUE, info |-> ti]
        ELSE [files |-> r.files, entry |-> r.entry, raised |-> parsed.raised,
              fetch_failed |-> FALSE, info |-> parsed.info]

\* a handler that lets the exception of a fetch through
MonthOutcome_fetch_error_escapes(filled) ==
    IF filled.fetch_failed THEN "crash"
    ELSE IF filled.raised THEN "drop" ELSE "append"

\* the try / except of lines 160-164: a bare except catches whatever
\* fill_month_trade_info raises
MonthOutcome(filled) == IF filled.raised THEN "drop" ELSE "append"

\* an append that keeps one record per (year, month)
AppendMonth_once_per_key(list, info) ==
    IF \E i \in 1..Len(list) : list[i].year = info.year /\ list[i].month = info.month
    THEN list
    ELSE Append(list, info)

\* month_info_list.append(month_trade_info) (line 162)
AppendMonth(list, info) == Append(list, info)

\* the append done whether or not the parse raised
AppendFilled_before_fill(list, filled, ti) ==
    IF filled.fetch_failed THEN list ELSE AppendMonth(list, filled.info)

\* lines 160-164 on the result list
AppendFilled(list, filled, ti) ==
    IF MonthOutcome(filled) = "append" THEN AppendMonth(list, filled.info) ELSE list

\* the key of line 179 compared as Python compares two tuples of str
KeyLess(a, b) ==
    StrLess(a.year, b.year) \/ (a.year = b.year /\ StrLess(a.month, b.month))

\* e placed in the sorted list s after the elements that are not greater
InsertSorted(s, e) ==
    LET I == {i \in 1..Len(s) : KeyLess(e, s[i])}
        k == IF I = {} THEN Len(s) + 1 ELSE CHOOSE i \in I : \A j \in I : i <= j
    IN  SubSeq(s, 1, k - 1) \o <<e>> \o SubSeq(s, k, Len(s))

RECURSIVE SortFrom(_, _)
SortFrom(done, rest) ==
    IF rest = <<>> THEN done ELSE SortFrom(InsertSorted(done, rest[1]), Tail(rest))

\* month_info_list.sort(key=lambda obj: (obj.year, obj.month)) (line 179):
\* a stable sort
SortMonths(list) == SortFrom(<<>>, list)

\* x = [f'{obj.year}{obj.month}' for obj in month_info_list] (line 182)
Labels(list) == [i \in 1..Len(list) |-> list[i].year \o list[i].month]

\* the sites tried: up to MaxAnchors anchors, spread over the index pages
FlatAnchors == UNION {[1..n -> Anchors] : n \in 0..MaxAnchors}

Sites ==
    {[p \in 1..NumPages |->
         SubSeq(s, (IF p = 1 THEN 0 ELSE cut[p - 1]) + 1,
                   IF p = NumPages THEN Len(s) ELSE cut[p])] :
        <<s, cut>> \in {sc \in FlatAnchors \X [1..(NumPages - 1) -> 0..MaxAnchors] :
                           /\ \A k \in 1..(NumPages - 1) : sc[2][k] <= Len(sc[1])
                           /\ \A k \in 1..(NumPages - 2) : sc[2][k] <= sc[2][k + 1]}}

Init ==
    /\ site \in Sites
    /\ files = [f \in FileIds |-> Absent]
    /\ fetch_log = <<>>
    /\ month_info_list = <<>>
    /\ x = <<>>
    /\ pc = "page"
    /\ page_idx = 1
    /\ month_tags = <<>>
    /\ tag_idx = 0
    /\ content = NoContent
    /\ trade_info = [raised |-> FALSE, done |-> FALSE, info |-> NoTrade]

\* process_index_page(page_id) up to the for loop (lines 147-152); an
\* exception of the fetch is caught nowhere and ends the run
ProcessIndexPage ==
    /\ pc = "page"
    /\ \E response \in {NetFail, IndexText(page_idx)} :
          LET r == fetch_html_content(files, page_ids[page_idx], page_ids[page_idx],
                                      response)
          IN  /\ files' = r.files
              /\ fetch_log' = Append(fetch_log, LogEntry(r.entry, page_idx))
              /\ IF r.entry.failed
                 THEN pc' = "crashed" /\ UNCHANGED <<month_tags, tag_idx>>
                 ELSE /\ pc' = "months"
                      /\ month_tags' = find_all(r.entry.ret)
                      /\ tag_idx' = 1
    /\ UNCHANGED <<month_info_list, x, page_idx, site, content, trade_info>>

\* one iteration of the for loop (lines 153-164)
ProcessMonth ==
    /\ pc = "months"
    /\ tag_idx <= Len(month_tags)
    /\ LET month_tag == month_tags[tag_idx]
           match_res == TitleMatch(month_tag.title)
       IN  IF match_res = <<>>
           THEN \* line 157: None has no group; raised outside the try
                /\ pc' = "crashed"
                /\ UNCHANGED <<files, fetch_log, month_info_list, tag_idx>>
           ELSE LET ti == TradeInfo(match_res[1].year, match_res[1].month,
                                    month_tag.href)
                IN  \E response \in {NetFail, BulletinText(ti.href)} :
                       LET filled == fill_month_trade_info(
                                         files, ti, month_tag.title \o DotHtml, response)
                       IN  /\ files' = filled.files
                           /\ fetch_log' = Append(fetch_log,
                                                  LogEntry(filled.entry, page_idx))
                           /\ month_info_list' =
                                  AppendFilled(month_info_list, filled, ti)
                           /\ IF MonthOutcome(filled) = "crash"
                              THEN pc' = "crashed" /\ tag_idx' = tag_idx
                              ELSE pc' = pc /\ tag_idx' = tag_idx + 1
    /\ UNCHANGED <<x, page_idx, month_tags, site, content, trade_info>>

\* the for loop of line 153 is over: fetch_business_data goes to the next
\* page (lines 171-172), or returns
EndPage ==
    /\ pc = "months"
    /\ tag_idx > Len(month_tags)
    /\ IF page_idx < NumPages
       THEN pc' = "page" /\ page_idx' = page_idx + 1
       ELSE pc' = "sort" /\ page_idx' = page_idx
    /\ UNCHANGED <<files, fetch_log, month_info_list, x, month_tags, tag_idx,
                   site, content, trade_info>>

\* lines 179-182
SortAndLabel ==
    /\ pc = "sort"
    /\ month_info_list' = SortMonths(month_info_list)
    /\ x' = Labels(SortMonths(month_info_list))
    /\ pc' = "done"
    /\ UNCHANGED <<files, fetch_log, page_idx, month_tags, tag_idx, site,
                   content, trade_info>>

Next == ProcessIndexPage \/ ProcessMonth \/ EndPage \/ SortAndLabel

Spec == Init /\ [][Next]_vars

-----------------------------------------------------------------------------
(* The page cache on its own: any sequence of calls.                       *)

\* the file names, remote paths and response bodies of the calls: the
\* bodies are "", "A", "é" and "月A"
CacheIds == {page_ids[1], MakeTitle(Y2023, M3) \o DotHtml}
CacheSuffixes == {page_ids[1], <<97>>}
CacheBodies == {<<>>, <<65>>, <<233>>, <<26376, 65>>}

InitCache ==
    /\ files = [f \in FileIds |-> Absent]
    /\ fetch_log = <<>>
    /\ month_info_list = <<>>
    /\ x = <<>>
    /\ pc = "cache"
    /\ page_idx = 0
    /\ month_tags = <<>>
    /\ tag_idx = 0
    /\ site = <<>>
    /\ content = NoContent
    /\ trade_info = [raised |-> FALSE, done |-> FALSE, info |-> NoTrade]

\* one call fetch_html_content(dump_file, suffix)
GetPage ==
    /\ pc = "cache"
    /\ Len(fetch_log) < MaxCalls
    /\ \E dump_file \in CacheIds, suffix \in CacheSuffixes,
          response \in CacheBodies \cup {NetFail} :
          LET r == fetch_html_content(files, dump_file, suffix, response)
          IN  /\ files' = r.files
              /\ fetch_log' = Append(fetch_log, LogEntry(r.entry, 0))
    /\ UNCHANGED <<month_info_list, x, pc, page_idx, month_tags, tag_idx, site,
                   content, trade_info>>

NextCache == GetPage

SpecCache == InitCache /\ [][NextCache]_vars

-----------------------------------------------------------------------------
(* The claims.                                                             *)

\* the signed percent of a trend token and the figure that follows it:
\* minus the figure when the token holds one of 降 负 低 下
SignedPercent(t, n) ==
    IF \E i \in 1..Len(t) : t[i] \in {38477, 36127, 20302, 19979}
    THEN 0 - Float(n) ELSE Float(n)

Triple(v, y, m) == [value |-> v, yoy |-> y, mom |-> m]

AreaTriple(d) ==
    Triple(Float(d.area), SignedPercent(d.tb_t, d.tb_n), SignedPercent(d.hb_t, d.hb_n))

UnitTriple(d) ==
    Triple(Float(d.unit), SignedPercent(d.u_tb_t, d.u_tb_n),
           SignedPercent(d.u_hb_t, d.u_hb_n))

Parsed == trade_info.done /\ ~trade_info.raised

\* C1: for every matched transaction sentence the area triple and the unit
\* triple use the same mapping (value, signed 同比 percent, signed 环比
\* percent of their own clause); the example sentence gives
\* commercial_area = {12.5, +3.2, -1.1}, commercial_unit = {150, +2.0, -0.5}.
C1_SameMapping ==
    Parsed =>
        /\ trade_info.info.new_house[1].commercial_area
               = AreaTriple(content.new_commercial[1])
        /\ trade_info.info.new_house[1].commercial_unit
               = UnitTriple(content.new_commercial[1])
        /\ trade_info.info.old_house[1].commercial_area
               = AreaTriple(content.old_commercial[1])
        /\ trade_info.info.old_house[1].commercial_unit
               = UnitTriple(content.old_commercial[1])
        /\ content.new_commercial[1] = ExampleDeal =>
               /\ trade_info.info.new_house[1].commercial_area = Triple(125, 32, -11)
               /\ trade_info.info.new_house[1].commercial_unit = Triple(1500, 20, -5)

\* the signed percents of a sentence: each figure with the sign of the
\* trend token immediately before it
SignedOfList(l) == {SignedPercent(l.tb_t, l.tb_n), SignedPercent(l.hb_t, l.hb_n)}
SignedOfArea(d) == {SignedPercent(d.tb_t, d.tb_n), SignedPercent(d.hb_t, d.hb_n)}
SignedOfUnit(d) == {SignedPercent(d.u_tb_t, d.u_tb_n), SignedPercent(d.u_hb_t, d.u_hb_n)}

\* C8: every stored yoy / mom field is a captured percent figure signed by
\* the trend token immediately preceding that same figure (minus for a
\* token holding 降 负 低 下, plus otherwise); value is never negated.
C8_SignFromOwnToken ==
    Parsed =>
        LET i == trade_info.info
            nc == content.new_commercial[1]
            oc == content.old_commercial[1]
        IN  /\ {i.commercial_list_info[1].yoy, i.commercial_list_info[1].mom}
                   = SignedOfList(content.commercial_list[1])
            /\ {i.residential_list_info[1].yoy, i.residential_list_info[1].mom}
                   = SignedOfList(content.residential_list[1])
            /\ {i.new_house[1].commercial_area.yoy, i.new_house[1].commercial_area.mom}
                   = SignedOfArea(nc)
            /\ {i.new_house[1].commercial_unit.yoy, i.new_house[1].commercial_unit.mom}
                   = SignedOfUnit(nc)
            /\ {i.old_house[1].commercial_area.yoy, i.old_house[1].commercial_area.mom}
                   = SignedOfArea(oc)
            /\ {i.old_house[1].commercial_unit.yoy, i.old_house[1].commercial_unit.mom}
                   = SignedOfUnit(oc)
            /\ i.commercial_list_info[1].value = Float(content.commercial_list[1].area)
            /\ i.new_house[1].commercial_area.value = Float(nc.area)
            /\ i.new_house[1].commercial_unit.value = Float(nc.unit)

\* C10: for each listed-area sentence the triple's yoy is the signed percent
\* that follows 同比 and its mom the signed percent that follows 环比.
C10_ListedYoyMom ==
    Parsed =>
        /\ trade_info.info.commercial_list_info[1]
               = AreaTriple(content.commercial_list[1])
        /\ trade_info.info.residential_list_info[1]
               = AreaTriple(content.residential_list[1])

\* the bulletin fetches of the history (those of the for loop)
IndexIds == {page_ids[k] : k \in 1..NumPages}
IsBulletinFetch(e) == e.id \notin IndexIds /\ ~e.failed

KeyOfId(id) == TitleMatch(id)[1]

\* the container is there and the content string holds a match of every
\* one of the six sentence patterns
ParseableBulletin(para) ==
    /\ para # <<>>
    /\ commercial_list_pattern(para[1]) # <<>>
    /\ residential_list_pattern(para[1]) # <<>>
    /\ new_commercial_deal_pattern(para[1]) # <<>>
    /\ new_residential_deal_pattern(para[1]) # <<>>
    /\ old_commercial_deal_pattern(para[1]) # <<>>
    /\ old_residential_deal_pattern(para[1]) # <<>>

\* every required sentence but the resale-residential one
LacksResaleResidential(para) ==
    /\ para # <<>>
    /\ commercial_list_pattern(para[1]) # <<>>
    /\ residential_list_pattern(para[1]) # <<>>
    /\ new_commercial_deal_pattern(para[1]) # <<>>
    /\ new_residential_deal_pattern(para[1]) # <<>>
    /\ old_commercial_deal_pattern(para[1]) # <<>>
    /\ old_residential_deal_pattern(para[1]) = <<>>

RecordOf(e, r) ==
    r.year = KeyOfId(e.id).year /\ r.month = KeyOfId(e.id).month /\ r.href = e.suffix

\* C2: a bulletin whose content string has every other required sentence
\* but lacks the resale-residential transaction sentence is dropped: no
\* record for that month is in the final sorted series.
C2_MissingResaleDropped ==
    pc = "done" =>
        \A i \in 1..Len(fetch_log) :
            (IsBulletinFetch(fetch_log[i])
                 /\ LacksResaleResidential(find_para(fetch_log[i].ret)))
            => ~\E k \in 1..Len(month_info_list) :
                   RecordOf(fetch_log[i], month_info_list[k])

IntKeyLeq(a, b) ==
    \/ IntOf(a.year) < IntOf(b.year)
    \/ (IntOf(a.year) = IntOf(b.year) /\ IntOf(a.month) <= IntOf(b.month))

\* C3: after the sort the records are in ascending order of (year, month)
\* compared as integers; records (2023,3), (2022,11), (2023,1) give the
\* labels "202211", "202301", "202303".
C3_SortedAsIntegers ==
    pc = "done" =>
        /\ \A i \in 1..(Len(month_info_list) - 1) :
               IntKeyLeq(month_info_list[i], month_info_list[i + 1])
        /\ {<<IntOf(r.year), IntOf(r.month)>> :
                r \in {month_info_list[i] : i \in 1..Len(month_info_list)}}
               = {<<2023, 3>>, <<2022, 11>>, <<2023, 1>>}
           /\ Len(month_info_list) = 3
           => x = <<Y2022 \o M11, Y2023 \o <<48>> \o M1, Y2023 \o <<48>> \o M3>>

\* C4 as stated: a failure of any fetch terminates the run.
C4_AnyFetchFailureFatal ==
    (\E i \in 1..Len(fetch_log) : fetch_log[i].failed) => pc = "crashed"

FetchStep == Len(fetch_log') = Len(fetch_log) + 1

\* C4 amended: a failure of the fetch of an index page is caught nowhere
\* and terminates the run; a failure of the fetch of a month's bulletin is
\* caught by the per-month handler: the month is dropped (nothing is
\* appended) and the run continues with the next month.
C4_IndexFatalBulletinDropped ==
    [][(FetchStep /\ Last(fetch_log').failed) =>
           IF pc = "page"
           THEN pc' = "crashed" /\ month_info_list' = month_info_list
           ELSE /\ pc = "months"
                /\ pc' = "months"
                /\ tag_idx' = tag_idx + 1
                /\ month_info_list' = month_info_list]_vars

\* a bulletin fetch failed and the run went on to append a later month
C4_Witness ==
    \E i \in 1..Len(fetch_log) :
        /\ fetch_log[i].failed
        /\ fetch_log[i].id \notin IndexIds
        /\ \E j \in (i + 1)..Len(fetch_log) : IsBulletinFetch(fetch_log[j])
        /\ Len(month_info_list) = 1
        /\ pc = "done"

Stored(id) ==
    \E i \in 1..Len(fetch_log) :
        /\ fetch_log[i].id = id
        /\ fetch_log[i].get
        /\ ~fetch_log[i].failed
        /\ fetch_log[i].ret.data # <<>>

\* C5: a call issues a GET if and only if the artifact named by its
\* identifier is absent or empty when the call starts; once a call has
\* fetched and stored a non-empty body for an identifier, every later call
\* with that identifier issues no GET and leaves the artifact unchanged.
C5_GetIffMiss ==
    [][FetchStep =>
           LET e == Last(fetch_log')
           IN  /\ e.get <=> (files[e.id] = Absent \/ files[e.id] = <<>>)
               /\ Stored(e.id) => (~e.get /\ files' = files)]_vars

\* a body was fetched and stored, and a later call with the same
\* identifier and another remote path was served from the file
C5_Witness ==
    \E i \in 1..Len(fetch_log) : \E j \in (i + 1)..Len(fetch_log) :
        /\ fetch_log[i].get /\ ~fetch_log[i].failed
        /\ fetch_log[i].ret.data # <<>>
        /\ fetch_log[j].id = fetch_log[i].id
        /\ fetch_log[j].suffix # fetch_log[i].suffix
        /\ ~fetch_log[j].get
        /\ files[fetch_log[i].id] = Utf8Encode(fetch_log[i].ret.data)

\* C6: the value returned on a cache miss is the UTF-8 bytes written to the
\* artifact, and equals the value the immediately following call with the
\* same identifier returns on its cache hit.
C6_MissReturnsStoredBytes ==
    \A i \in 1..Len(fetch_log) :
        (fetch_log[i].get /\ ~fetch_log[i].failed) =>
            /\ i = Len(fetch_log) =>
                   fetch_log[i].ret = BytesValue(files[fetch_log[i].id])
            /\ (i < Len(fetch_log)
                   /\ fetch_log[i + 1].id = fetch_log[i].id
                   /\ ~fetch_log[i + 1].get)
               => fetch_log[i + 1].ret = fetch_log[i].ret

IsTriple(t) == DOMAIN t = {"value", "yoy", "mom"}

CompleteHouse(h) ==
    /\ h # <<>>
    /\ IsTriple(h[1].commercial_area) /\ IsTriple(h[1].commercial_unit)
    /\ IsTriple(h[1].residential_area) /\ IsTriple(h[1].residential_unit)

CompleteRecord(r) ==
    /\ r.commercial_list_info # <<>> /\ IsTriple(r.commercial_list_info[1])
    /\ r.residential_list_info # <<>> /\ IsTriple(r.residential_list_info[1])
    /\ CompleteHouse(r.new_house)
    /\ CompleteHouse(r.old_house)

\* the container is missing, or one of the searched patterns has no match
Unparseable(para) ==
    \/ para = <<>>
    \/ commercial_list_pattern(para[1]) = <<>>
    \/ residential_list_pattern(para[1]) = <<>>
    \/ new_commercial_deal_pattern(para[1]) = <<>>
    \/ old_commercial_deal_pattern(para[1]) = <<>>

\* C7: every record of the result list has all its metric fields
\* populated; a month whose content container is missing or for which a
\* searched pattern has no match is not appended, and the orchestrator
\* goes on to the next discovered month.
C7_OnlyCompleteRecords ==
    /\ [](\A k \in 1..Len(month_info_list) : CompleteRecord(month_info_list[k]))
    /\ [][(FetchStep /\ pc = "months" /\ ~Last(fetch_log').failed
               /\ Unparseable(find_para(Last(fetch_log').ret)))
          => /\ month_info_list' = month_info_list
             /\ pc' = "months"
             /\ tag_idx' = tag_idx + 1]_vars

\* a month was dropped because its bulletin did not parse, and the month
\* after it was appended
C7_Witness ==
    /\ Len(fetch_log) >= 3
    /\ IsBulletinFetch(fetch_log[Len(fetch_log) - 1])
    /\ Unparseable(find_para(fetch_log[Len(fetch_log) - 1].ret))
    /\ find_para(fetch_log[Len(fetch_log) - 1].ret) # <<>>
    /\ IsBulletinFetch(Last(fetch_log))
    /\ ~Unparseable(find_para(Last(fetch_log).ret))
    /\ Len(month_info_list) = 1

SameKeyOnTwoPages(i, j) ==
    /\ i < j
    /\ IsBulletinFetch(fetch_log[i]) /\ IsBulletinFetch(fetch_log[j])
    /\ fetch_log[i].page < fetch_log[j].page
    /\ KeyOfId(fetch_log[i].id) = KeyOfId(fetch_log[j].id)
    /\ ParseableBulletin(find_para(fetch_log[i].ret))
    /\ ParseableBulletin(find_para(fetch_log[j].ret))

\* C9: anchors for the same (year, month) on two index pages, each leading
\* to a parseable bulletin, give two records with that key in the result
\* list at DONE, in the order the index pages were processed.
C9_NoDeduplication ==
    pc = "done" =>
        \A i, j \in 1..Len(fetch_log) :
            SameKeyOnTwoPages(i, j) =>
                \E a, b \in 1..Len(month_info_list) :
                    /\ a < b
                    /\ RecordOf(fetch_log[i], month_info_list[a])
                    /\ RecordOf(fetch_log[j], month_info_list[b])

\* the same month was found on the first and on the second index page,
\* under two links, and the run is over
C9_Witness ==
    /\ pc = "done"
    /\ \E i, j \in 1..Len(fetch_log) :
           SameKeyOnTwoPages(i, j) /\ fetch_log[i].suffix # fetch_log[j].suffix
    /\ Len(month_info_list) = 2

====
